---- MODULE Spec2Model ----
(***************************************************************************)
(* A model of src/core/corelib.c of janet: the inline assembler macros,    *)
(* the instruction templates (variadic reducers, chained comparators,      *)
(* apply), the native primitives table/struct/next/gcsetinterval/          *)
(* gcinterval/native, and the construction of the root environment.        *)
(*                                                                         *)
(* The assembled instruction words are executed by a small register        *)
(* machine that decodes every operand from the 32-bit word, so that the    *)
(* templates are checked as the bytes the C macros produce.                *)
(***************************************************************************)
EXTENDS Integers, Sequences, FiniteSets, TLC

\* ------------------------------------------------------------------ bounds

\* Longest argument list handed to a reducer or a comparator.
MaxArgs == 3
\* Argument values are the integers 0..MaxVal.
MaxVal == 2
\* Most (key, value) pairs handed to table and struct.
MaxPairs == 2
\* Most calls in a sequence of gcsetinterval/gcinterval calls.
MaxCalls == 3

\* --------------------------------------------------------------- state

\* The call of an assembled function.
VARIABLES
    fn,        \* the JanetFuncDef being executed
    args,      \* the arguments of the call
    stack,     \* the frame's slots: stack[r + 1] is register r
    pc,        \* index of the next instruction, from 0
    pushed,    \* values pushed for the next call
    status,    \* "running", "returned", "tailcall" or "error"
    ret,       \* the value returned, the callee of a tail call, or the error
    evals      \* the operand pairs the template's opcode was evaluated on

\* table, struct and next.
VARIABLES
    dcall,     \* the constructor called: [name, args]
    dstatus,   \* "none" before the call, then "ok" or "error"
    dret,      \* what the constructor returned, or the error it threw
    ncall,     \* the arguments of the last call of next
    nstatus,   \* "none", or the last call of next ended "ok" or "error"
    nret,      \* what the last call of next returned or threw
    cur,       \* the walk: the key handed to the next call of next
    visited,   \* the walk: the keys next has returned, in order
    walk       \* "walking" until next returns nil, then "done"

\* gcsetinterval and gcinterval.
VARIABLES
    janet_vm_gc_interval,  \* uint32_t, as its four bytes
    gcall,     \* the last call: [name, args]
    gstatus,   \* "none", or the last call ended "ok" or "error"
    gret,      \* what the last call returned or threw
    before,    \* janet_vm_gc_interval before the last call
    lastset,   \* the argument of the last gcsetinterval that succeeded
    ncalls     \* the number of calls made

\* native.
VARIABLES
    build,     \* the platform the file was compiled for
    libs,      \* for each path, what the dynamic loader finds there
    dlerr,     \* the message dlerror() gives when loading fails
    natcall,   \* the arguments of the call of native
    natstatus, \* "none", or the call ended "ok" or "error"
    natret,    \* what the call returned or threw
    natres     \* what janet_native returned: [init, error]

\* janet_core_env.
VARIABLES
    assembler, \* whether the file was compiled with JANET_ASSEMBLER
    epc,       \* the step janet_core_env is at: an index into EnvSteps
    env,       \* the names bound in the root environment, in binding order
    rooted,    \* whether the environment is a garbage-collection root
    auxrun,    \* the auxiliary library modules invoked so far, in order
    boot,      \* "none", or how the bootstrap program ended: "ok" or "error"
    handed     \* whether janet_core_env has returned the environment

\* The instruction encoding macros, applied and read back.
VARIABLES
    eform,     \* the macro applied: "SSS", "SS", "SSI", "S" or "SI"
    eops,      \* the macro's arguments, in order
    ephase,    \* "input", then "encoded", then "decoded"
    eword,     \* the uint32_t the macro produced
    efields    \* the fields read back from eword

vmvars == << fn, args, stack, pc, pushed, status, ret, evals >>
dictvars == << dcall, dstatus, dret, ncall, nstatus, nret, cur, visited, walk >>
gcvars == << janet_vm_gc_interval, gcall, gstatus, gret, before, lastset, ncalls >>
natvars == << build, libs, dlerr, natcall, natstatus, natret, natres >>
envvars == << assembler, epc, env, rooted, auxrun, boot, handed >>
encvars == << eform, eops, ephase, eword, efields >>
vars == << vmvars, dictvars, gcvars, natvars, envvars, encvars >>

\* ------------------------------------------------- 32-bit words, as 4 bytes

\* A uint32_t is the tuple of its four bytes, least significant first.
RECURSIVE BitOr(_, _)
BitOr(x, y) ==
    IF x = 0 THEN y
    ELSE IF y = 0 THEN x
    ELSE (IF (x % 2 = 1) \/ (y % 2 = 1) THEN 1 ELSE 0) + 2 * BitOr(x \div 2, y \div 2)

RECURSIVE BitAnd(_, _)
BitAnd(x, y) ==
    IF x = 0 \/ y = 0 THEN 0
    ELSE (IF (x % 2 = 1) /\ (y % 2 = 1) THEN 1 ELSE 0) + 2 * BitAnd(x \div 2, y \div 2)

RECURSIVE BitXor(_, _)
BitXor(x, y) ==
    IF x = 0 THEN y
    ELSE IF y = 0 THEN x
    ELSE (IF (x % 2) # (y % 2) THEN 1 ELSE 0) + 2 * BitXor(x \div 2, y \div 2)

\* The bytes of a non-negative int below 2^31.
NatBytes(x) ==
    << x % 256, (x \div 256) % 256, (x \div 65536) % 256, (x \div 16777216) % 256 >>

\* (uint32_t) x for an int32_t x: two's complement.
ToU32(x) ==
    IF x >= 0 THEN NatBytes(x)
    ELSE LET y == NatBytes((x + 2147483647) + 1)
         IN  << y[1], y[2], y[3], y[4] + 128 >>

\* (int32_t) w for a uint32_t w.
ToI32(w) ==
    IF w[4] < 128 THEN w[1] + 256 * w[2] + 65536 * w[3] + 16777216 * w[4]
    ELSE ((w[1] + 256 * w[2] + 65536 * w[3] + 16777216 * (w[4] - 128)) - 2147483647) - 1

\* w << (8 * lanes), on 32 bits: the bytes shifted out are lost.
ShiftLeft(w, lanes) ==
    [i \in 1..4 |-> IF i - lanes >= 1 THEN w[i - lanes] ELSE 0]

\* w1 | w2
WordOr(w1, w2) == [i \in 1..4 |-> BitOr(w1[i], w2[i])]

\* -------------------------------------------------------- the opcode enum

\* enum JanetOpCode of janet/janet.h, in declaration order: JOP(name) is the
\* enumerator's value.
JanetOpCodes ==
    << "NOOP", "ERROR", "TYPECHECK", "RETURN", "RETURN_NIL",
       "ADD_INTEGER", "ADD_IMMEDIATE", "ADD_REAL", "ADD",
       "SUBTRACT_INTEGER", "SUBTRACT_REAL", "SUBTRACT",
       "MULTIPLY_INTEGER", "MULTIPLY_IMMEDIATE", "MULTIPLY_REAL", "MULTIPLY",
       "DIVIDE_INTEGER", "DIVIDE_IMMEDIATE", "DIVIDE_REAL", "DIVIDE",
       "BAND", "BOR", "BXOR", "BNOT",
       "SHIFT_LEFT", "SHIFT_LEFT_IMMEDIATE",
       "SHIFT_RIGHT", "SHIFT_RIGHT_IMMEDIATE",
       "SHIFT_RIGHT_UNSIGNED", "SHIFT_RIGHT_UNSIGNED_IMMEDIATE",
       "MOVE_FAR", "MOVE_NEAR", "JUMP", "JUMP_IF", "JUMP_IF_NOT",
       "GREATER_THAN", "GREATER_THAN_INTEGER", "GREATER_THAN_IMMEDIATE",
       "GREATER_THAN_REAL", "GREATER_THAN_EQUAL_REAL",
       "LESS_THAN", "LESS_THAN_INTEGER", "LESS_THAN_IMMEDIATE",
       "LESS_THAN_REAL", "LESS_THAN_EQUAL_REAL",
       "EQUALS", "EQUALS_INTEGER", "EQUALS_IMMEDIATE", "EQUALS_REAL",
       "COMPARE", "LOAD_NIL", "LOAD_TRUE", "LOAD_FALSE", "LOAD_INTEGER",
       "LOAD_CONSTANT", "LOAD_UPVALUE", "LOAD_SELF", "SET_UPVALUE",
       "CLOSURE", "PUSH", "PUSH_2", "PUSH_3", "PUSH_ARRAY",
       "CALL", "TAILCALL", "RESUME", "SIGNAL",
       "GET", "PUT", "GET_INDEX", "PUT_INDEX", "LENGTH",
       "MAKE_ARRAY", "MAKE_BUFFER", "MAKE_STRING", "MAKE_STRUCT",
       "MAKE_TABLE", "MAKE_TUPLE",
       "NUMERIC_LESS_THAN", "NUMERIC_LESS_THAN_EQUAL",
       "NUMERIC_GREATER_THAN", "NUMERIC_GREATER_THAN_EQUAL",
       "NUMERIC_EQUAL" >>

JOP(name) == (CHOOSE i \in 1..Len(JanetOpCodes) : JanetOpCodes[i] = name) - 1

OpName(n) == JanetOpCodes[n + 1]

\* ------------------------------------------- macros for inline assembly

\* #define SSS(op, a, b, c) ((op) | ((a) << 8) | ((b) << 16) | ((c) << 24))
SSS(op, a, b, c) ==
    WordOr(WordOr(ToU32(op), ShiftLeft(ToU32(a), 1)),
           WordOr(ShiftLeft(ToU32(b), 2), ShiftLeft(ToU32(c), 3)))

\* #define SS(op, a, b) ((op) | ((a) << 8) | ((b) << 16))
SS(op, a, b) ==
    WordOr(WordOr(ToU32(op), ShiftLeft(ToU32(a), 1)), ShiftLeft(ToU32(b), 2))

\* SSI with the immediate shifted by 16 instead of 24.
SSI_immediate_at_16(op, a, b, I) ==
    WordOr(WordOr(ToU32(op), ShiftLeft(ToU32(a), 1)),
           WordOr(ShiftLeft(ToU32(b), 2), ShiftLeft(ToU32(I), 2)))

\* #define SSI(op, a, b, I) ((op) | ((a) << 8) | ((b) << 16) | ((uint32_t)(I) << 24))
SSI(op, a, b, I) ==
    WordOr(WordOr(ToU32(op), ShiftLeft(ToU32(a), 1)),
           WordOr(ShiftLeft(ToU32(b), 2), ShiftLeft(ToU32(I), 3)))

\* #define S(op, a) ((op) | ((a) << 8))
S(op, a) == WordOr(ToU32(op), ShiftLeft(ToU32(a), 1))

\* #define SI(op, a, I) ((op) | ((a) << 8) | ((uint32_t)(I) << 16))
SI(op, a, I) ==
    WordOr(WordOr(ToU32(op), ShiftLeft(ToU32(a), 1)), ShiftLeft(ToU32(I), 2))

\* ------------------------------------------------- instruction templates

\* varop_asm with the loop iterator primed to 0 instead of 1.
varop_asm_loop_from_zero(nullary, unary, op) ==
    << SS(JOP("LENGTH"), 1, 0),
       \* Check nullary
       SSS(JOP("EQUALS_IMMEDIATE"), 2, 1, 0),
       SI(JOP("JUMP_IF_NOT"), 2, 3),
       \* Nullary
       SI(JOP("LOAD_INTEGER"), 3, nullary),
       S(JOP("RETURN"), 3),
       \* Check unary
       SSI(JOP("EQUALS_IMMEDIATE"), 2, 1, 1),
       SI(JOP("JUMP_IF_NOT"), 2, 5),
       \* Unary
       SI(JOP("LOAD_INTEGER"), 3, unary),
       SSI(JOP("GET_INDEX"), 4, 0, 0),
       SSS(op, 3, 3, 4),
       S(JOP("RETURN"), 3),
       \* Multi (2 or more) arity: prime loop
       SSI(JOP("GET_INDEX"), 3, 0, 0),
       SI(JOP("LOAD_INTEGER"), 5, 0),
       \* Main loop
       SSS(JOP("GET"), 4, 0, 5),
       SSS(op, 3, 3, 4),
       SSI(JOP("ADD_IMMEDIATE"), 5, 5, 1),
       SSI(JOP("EQUALS_INTEGER"), 2, 5, 1),
       SI(JOP("JUMP_IF_NOT"), 2, -4),
       \* Done
       S(JOP("RETURN"), 3) >>

\* templatize_varop: uint32_t varop_asm[]
varop_asm(nullary, unary, op) ==
    << SS(JOP("LENGTH"), 1, 0),
       \* Check nullary
       SSS(JOP("EQUALS_IMMEDIATE"), 2, 1, 0),
       SI(JOP("JUMP_IF_NOT"), 2, 3),
       \* Nullary
       SI(JOP("LOAD_INTEGER"), 3, nullary),
       S(JOP("RETURN"), 3),
       \* Check unary
       SSI(JOP("EQUALS_IMMEDIATE"), 2, 1, 1),
       SI(JOP("JUMP_IF_NOT"), 2, 5),
       \* Unary
       SI(JOP("LOAD_INTEGER"), 3, unary),
       SSI(JOP("GET_INDEX"), 4, 0, 0),
       SSS(op, 3, 3, 4),
       S(JOP("RETURN"), 3),
       \* Multi (2 or more) arity: prime loop
       SSI(JOP("GET_INDEX"), 3, 0, 0),
       SI(JOP("LOAD_INTEGER"), 5, 1),
       \* Main loop
       SSS(JOP("GET"), 4, 0, 5),
       SSS(op, 3, 3, 4),
       SSI(JOP("ADD_IMMEDIATE"), 5, 5, 1),
       SSI(JOP("EQUALS_INTEGER"), 2, 5, 1),
       SI(JOP("JUMP_IF_NOT"), 2, -4),
       \* Done
       S(JOP("RETURN"), 3) >>

\* comparator_asm that never moves next into last.
comparator_asm_stale_last(invert, op) ==
    << SS(JOP("LENGTH"), 1, 0),
       SSS(JOP("LESS_THAN_IMMEDIATE"), 2, 1, 2),
       SI(JOP("JUMP_IF"), 2, 10),
       \* Prime loop
       SSI(JOP("GET_INDEX"), 3, 0, 0),
       SI(JOP("LOAD_INTEGER"), 5, 1),
       \* Main loop
       SSS(JOP("GET"), 4, 0, 5),
       SSS(op, 2, 3, 4),
       SI(JOP("JUMP_IF_NOT"), 2, 7),
       SSI(JOP("ADD_IMMEDIATE"), 5, 5, 1),
       SS(JOP("MOVE_NEAR"), 3, 3),
       SSI(JOP("EQUALS_INTEGER"), 2, 5, 1),
       SI(JOP("JUMP_IF_NOT"), 2, -6),
       \* Done
       S(IF invert THEN JOP("LOAD_FALSE") ELSE JOP("LOAD_TRUE"), 3),
       S(JOP("RETURN"), 3),
       \* Failed
       S(IF invert THEN JOP("LOAD_TRUE") ELSE JOP("LOAD_FALSE"), 3),
       S(JOP("RETURN"), 3) >>

\* templatize_comparator: uint32_t comparator_asm[]
comparator_asm(invert, op) ==
    << SS(JOP("LENGTH"), 1, 0),
       SSS(JOP("LESS_THAN_IMMEDIATE"), 2, 1, 2),
       SI(JOP("JUMP_IF"), 2, 10),
       \* Prime loop
       SSI(JOP("GET_INDEX"), 3, 0, 0),
       SI(JOP("LOAD_INTEGER"), 5, 1),
       \* Main loop
       SSS(JOP("GET"), 4, 0, 5),
       SSS(op, 2, 3, 4),
       SI(JOP("JUMP_IF_NOT"), 2, 7),
       SSI(JOP("ADD_IMMEDIATE"), 5, 5, 1),
       SS(JOP("MOVE_NEAR"), 3, 4),
       SSI(JOP("EQUALS_INTEGER"), 2, 5, 1),
       SI(JOP("JUMP_IF_NOT"), 2, -6),
       \* Done
       S(IF invert THEN JOP("LOAD_FALSE") ELSE JOP("LOAD_TRUE"), 3),
       S(JOP("RETURN"), 3),
       \* Failed
       S(IF invert THEN JOP("LOAD_TRUE") ELSE JOP("LOAD_FALSE"), 3),
       S(JOP("RETURN"), 3) >>

\* apply_asm that pushes the last argument instead of spreading it.
apply_asm_push_last ==
    << SS(JOP("LENGTH"), 2, 1),
       SSS(JOP("EQUALS_IMMEDIATE"), 3, 2, 0),
       SI(JOP("JUMP_IF"), 3, 9),
       \* Prime loop
       SI(JOP("LOAD_INTEGER"), 4, 0),
       \* Main loop
       SSS(JOP("GET"), 5, 1, 4),
       SSI(JOP("ADD_IMMEDIATE"), 4, 4, 1),
       SSI(JOP("EQUALS_INTEGER"), 3, 4, 2),
       SI(JOP("JUMP_IF"), 3, 3),
       S(JOP("PUSH"), 5),
       \* (JOP_JUMP | ((uint32_t)(-5) << 8))
       WordOr(ToU32(JOP("JUMP")), ShiftLeft(ToU32(-5), 1)),
       \* Push the array
       S(JOP("PUSH"), 5),
       \* Call the function
       S(JOP("TAILCALL"), 0) >>

\* make_apply: uint32_t apply_asm[]
apply_asm ==
    << SS(JOP("LENGTH"), 2, 1),
       SSS(JOP("EQUALS_IMMEDIATE"), 3, 2, 0),
       SI(JOP("JUMP_IF"), 3, 9),
       \* Prime loop
       SI(JOP("LOAD_INTEGER"), 4, 0),
       \* Main loop
       SSS(JOP("GET"), 5, 1, 4),
       SSI(JOP("ADD_IMMEDIATE"), 4, 4, 1),
       SSI(JOP("EQUALS_INTEGER"), 3, 4, 2),
       SI(JOP("JUMP_IF"), 3, 3),
       S(JOP("PUSH"), 5),
       \* (JOP_JUMP | ((uint32_t)(-5) << 8))
       WordOr(ToU32(JOP("JUMP")), ShiftLeft(ToU32(-5), 1)),
       \* Push the array
       S(JOP("PUSH_ARRAY"), 5),
       \* Call the function
       S(JOP("TAILCALL"), 0) >>

\* The fixed sequences of janet_core_env.
\* { JOP_ERROR }
error_asm == << ToU32(JOP("ERROR")) >>

\* { JOP_SIGNAL | (2 << 24), JOP_RETURN_NIL }
debug_asm ==
    << WordOr(ToU32(JOP("SIGNAL")), ShiftLeft(ToU32(2), 3)),
       ToU32(JOP("RETURN_NIL")) >>

\* { JOP_SIGNAL | (3 << 24), JOP_RETURN }
yield_asm ==
    << WordOr(ToU32(JOP("SIGNAL")), ShiftLeft(ToU32(3), 3)),
       ToU32(JOP("RETURN")) >>

\* { JOP_RESUME | (1 << 24), JOP_RETURN }
resume_asm ==
    << WordOr(ToU32(JOP("RESUME")), ShiftLeft(ToU32(1), 3)),
       ToU32(JOP("RETURN")) >>

\* { JOP_GET | (1 << 24), JOP_RETURN }
get_asm ==
    << WordOr(ToU32(JOP("GET")), ShiftLeft(ToU32(1), 3)),
       ToU32(JOP("RETURN")) >>

\* { JOP_PUT | (1 << 16) | (2 << 24), JOP_RETURN }
put_asm ==
    << WordOr(ToU32(JOP("PUT")),
              WordOr(ShiftLeft(ToU32(1), 2), ShiftLeft(ToU32(2), 3))),
       ToU32(JOP("RETURN")) >>

\* { JOP_LENGTH, JOP_RETURN }
length_asm == << ToU32(JOP("LENGTH")), ToU32(JOP("RETURN")) >>

\* { JOP_BNOT, JOP_RETURN }
bnot_asm == << ToU32(JOP("BNOT")), ToU32(JOP("RETURN")) >>

\* janet_quick_asm: the function definition bound under `name`; the
\* instruction words are copied verbatim.
janet_quick_asm(kind, name, arity, slots, bytecode, vararg) ==
    [ kind |-> kind, name |-> name, arity |-> arity, vararg |-> vararg,
      slotcount |-> slots, bytecode |-> bytecode,
      bytecode_length |-> Len(bytecode) ]

\* templatize_varop asking for five slots instead of six.
templatize_varop_five_slots(name, nullary, unary, op) ==
    janet_quick_asm("varop", name, 0, 5, varop_asm(nullary, unary, JOP(op)), TRUE)

templatize_varop(name, nullary, unary, op) ==
    janet_quick_asm("varop", name, 0, 6, varop_asm(nullary, unary, JOP(op)), TRUE)

templatize_comparator(name, invert, op) ==
    janet_quick_asm("comparator", name, 0, 6, comparator_asm(invert, JOP(op)), TRUE)

make_apply == janet_quick_asm("apply", "apply", 1, 6, apply_asm, TRUE)

\* The reducers janet_core_env registers: name, nullary, unary, opcode.
VarOps ==
    << << "+",   0,  0,  "ADD" >>,
       << "-",   0,  0,  "SUBTRACT" >>,
       << "*",   1,  1,  "MULTIPLY" >>,
       << "/",   1,  1,  "DIVIDE" >>,
       << "&",   -1, -1, "BAND" >>,
       << "|",   0,  0,  "BOR" >>,
       << "^",   0,  0,  "BXOR" >>,
       << "<<",  1,  1,  "SHIFT_LEFT" >>,
       << ">>",  1,  1,  "SHIFT_RIGHT" >>,
       << ">>>", 1,  1,  "SHIFT_RIGHT_UNSIGNED" >> >>

\* The comparators janet_core_env registers: name, invert, opcode.
Comparators ==
    << << "order>",  FALSE, "GREATER_THAN" >>,
       << "order<",  FALSE, "LESS_THAN" >>,
       << "order>=", TRUE,  "LESS_THAN" >>,
       << "order<=", TRUE,  "GREATER_THAN" >>,
       << "=",       FALSE, "EQUALS" >>,
       << "not=",    TRUE,  "EQUALS" >>,
       << ">",       FALSE, "NUMERIC_GREATER_THAN" >>,
       << "<",       FALSE, "NUMERIC_LESS_THAN" >>,
       << ">=",      FALSE, "NUMERIC_GREATER_THAN_EQUAL" >>,
       << "<=",      FALSE, "NUMERIC_LESS_THAN_EQUAL" >>,
       << "==",      FALSE, "NUMERIC_EQUAL" >>,
       << "not==",   TRUE,  "NUMERIC_EQUAL" >> >>

VarOpNames == { VarOps[i][1] : i \in 1..Len(VarOps) }
ComparatorNames == { Comparators[i][1] : i \in 1..Len(Comparators) }

VarOpEntry(name) == VarOps[CHOOSE i \in 1..Len(VarOps) : VarOps[i][1] = name]
ComparatorEntry(name) ==
    Comparators[CHOOSE i \in 1..Len(Comparators) : Comparators[i][1] = name]

\* The janet_quick_asm calls of janet_core_env on the fixed sequences: name,
\* arity, slots, sequence.
FixedAsms ==
    << << "debug",  0, 1, debug_asm >>,
       << "error",  1, 1, error_asm >>,
       << "yield",  1, 2, yield_asm >>,
       << "resume", 2, 2, resume_asm >>,
       << "get",    2, 2, get_asm >>,
       << "put",    3, 3, put_asm >>,
       << "length", 1, 1, length_asm >>,
       << "~",      1, 1, bnot_asm >> >>

FixedNames == { FixedAsms[i][1] : i \in 1..Len(FixedAsms) }

FixedEntry(name) == FixedAsms[CHOOSE i \in 1..Len(FixedAsms) : FixedAsms[i][1] = name]

\* The assembled functions of the root environment, by name.
AssembledNames == VarOpNames \cup ComparatorNames \cup {"apply"} \cup FixedNames

AssembledFunction(name) ==
    IF name \in FixedNames
    THEN LET e == FixedEntry(name)
         IN  janet_quick_asm("fixed", e[1], e[2], e[3], e[4], FALSE)
    ELSE IF name \in VarOpNames
    THEN LET e == VarOpEntry(name) IN templatize_varop(e[1], e[2], e[3], e[4])
    ELSE IF name \in ComparatorNames
    THEN LET e == ComparatorEntry(name) IN templatize_comparator(e[1], e[2], e[3])
    ELSE make_apply

\* ----------------------------------------------------------------- values

NilV == [t |-> "nil", v |-> 0]
IntV(n) == [t |-> "integer", v |-> n]
BoolV(b) == [t |-> "boolean", v |-> b]
TupleV(s) == [t |-> "tuple", v |-> s]
FunV(name) == [t |-> "function", v |-> name]
StrV(s) == [t |-> "string", v |-> s]
ArrayV(s) == [t |-> "array", v |-> s]
FiberV(name) == [t |-> "fiber", v |-> name]

\* janet_truthy: everything but nil and false.
Truthy(x) == ~(x.t = "nil" \/ (x.t = "boolean" /\ x.v = FALSE))

\* ------------------------------------------------------- operand decoding

\* The fields of an instruction word w, each read at its fixed bit position.
\* w & 0xFF
FieldOp(w) == w[1]
\* (w >> 8) & 0xFF
FieldA(w) == w[2]
\* (w >> 16) & 0xFF
FieldB(w) == w[3]
\* w >> 24
FieldC(w) == w[4]
\* (int32_t) w >> 24
FieldCS(w) == IF w[4] < 128 THEN w[4] ELSE w[4] - 256
\* w >> 16
FieldE(w) == w[3] + 256 * w[4]
\* ((int16_t *) pc)[1]
FieldES(w) == IF w[4] < 128 THEN FieldE(w) ELSE FieldE(w) - 65536
\* w >> 8
FieldD(w) == w[2] + 256 * w[3] + 65536 * w[4]
\* (int32_t) w >> 8
FieldDS(w) == IF w[4] < 128 THEN FieldD(w) ELSE FieldD(w) - 16777216

Instr == fn.bytecode[pc + 1]
Opcode == OpName(FieldOp(Instr))
OperandA == FieldA(Instr)
OperandB == FieldB(Instr)
OperandC == FieldC(Instr)
OperandCS == FieldCS(Instr)
OperandE == FieldE(Instr)
OperandES == FieldES(Instr)
OperandD == FieldD(Instr)
OperandDS == FieldDS(Instr)

Reg(r) == stack[r + 1]
SetReg(r, x) == [stack EXCEPT ![r + 1] = x]

Running(op) ==
    /\ status = "running"
    /\ pc >= 0 /\ pc < fn.bytecode_length
    /\ Opcode = op

\* --------------------------------------------- encoding and reading back

\* Opcodes: the 8-bit range at its ends and middle, and opcodes the file uses.
EncOpcodes == { 0, 127, 128, 255, JOP("LOAD_INTEGER"), JOP("JUMP_IF_NOT") }
\* Register operands: 0..255 at its ends and middle, and the registers used.
EncRegisters == { 0, 2, 3, 127, 128, 255 }
\* Signed 8-bit immediates.
EncImmediates8 == { -128, -2, -1, 0, 1, 127 }
\* Signed 16-bit immediates, with the reducers' constant -1 and the jump
\* offsets -4 and -6.
EncImmediates16 == { -32768, -257, -256, -6, -4, -1, 0, 1, 255, 256, 32767 }

EncInputs ==
    [form : {"SSS"}, ops : EncOpcodes \X EncRegisters \X EncRegisters \X EncRegisters]
    \cup [form : {"SS"}, ops : EncOpcodes \X EncRegisters \X EncRegisters]
    \cup [form : {"SSI"}, ops : EncOpcodes \X EncRegisters \X EncRegisters \X EncImmediates8]
    \cup [form : {"S"}, ops : EncOpcodes \X EncRegisters]
    \cup [form : {"SI"}, ops : EncOpcodes \X EncRegisters \X EncImmediates16]

Encoded(w) ==
    /\ eword' = w
    /\ ephase' = "encoded"
    /\ UNCHANGED << eform, eops, efields >>
    /\ UNCHANGED << vmvars, dictvars, gcvars, natvars, envvars >>

EncodeSSS ==
    /\ ephase = "input" /\ eform = "SSS"
    /\ Encoded(SSS(eops[1], eops[2], eops[3], eops[4]))

EncodeSS ==
    /\ ephase = "input" /\ eform = "SS"
    /\ Encoded(SS(eops[1], eops[2], eops[3]))

EncodeSSI ==
    /\ ephase = "input" /\ eform = "SSI"
    /\ Encoded(SSI(eops[1], eops[2], eops[3], eops[4]))

EncodeS ==
    /\ ephase = "input" /\ eform = "S"
    /\ Encoded(S(eops[1], eops[2]))

EncodeSI ==
    /\ ephase = "input" /\ eform = "SI"
    /\ Encoded(SI(eops[1], eops[2], eops[3]))

\* Every field of the word is read back.
Decode ==
    /\ ephase = "encoded"
    /\ efields' = [op |-> FieldOp(eword), a |-> FieldA(eword),
                   b |-> FieldB(eword), c |-> FieldC(eword),
                   cs |-> FieldCS(eword), e |-> FieldE(eword),
                   es |-> FieldES(eword)]
    /\ ephase' = "decoded"
    /\ UNCHANGED << eform, eops, eword >>
    /\ UNCHANGED << vmvars, dictvars, gcvars, natvars, envvars >>

NoFields == [op |-> 0, a |-> 0, b |-> 0, c |-> 0, cs |-> 0, e |-> 0, es |-> 0]

InitEncode ==
    /\ \E x \in EncInputs : eform = x.form /\ eops = x.ops
    /\ ephase = "input"
    /\ eword = ToU32(0)
    /\ efields = NoFields

NextEncode ==
    \/ EncodeSSS
    \/ EncodeSS
    \/ EncodeSSI
    \/ EncodeS
    \/ EncodeSI
    \/ Decode

\* C12: for an 8-bit opcode, register operands in 0..255, a signed 8-bit
\* immediate in the register+register+immediate form and a signed 16-bit
\* immediate in the register+immediate form, reading each field of the
\* encoded word at its fixed bit position, with sign extension, gives back
\* exactly the opcode and operands encoded; no field overwrites another, and
\* the fields a form does not set are zero.
C12_EncodingRoundTrip ==
    ephase = "decoded" =>
        /\ efields.op = eops[1]
        /\ efields.a = eops[2]
        /\ eform = "SSS" => efields.b = eops[3] /\ efields.c = eops[4]
        /\ eform = "SS" => efields.b = eops[3] /\ efields.c = 0
        /\ eform = "SSI" => efields.b = eops[3] /\ efields.cs = eops[4]
        /\ eform = "S" => efields.b = 0 /\ efields.c = 0
        /\ eform = "SI" => efields.es = eops[3]

\* SI(JOP_LOAD_INTEGER, 3, -1), a reducer's constant, or
\* SI(JOP_JUMP_IF_NOT, 2, -6), the comparators' backward jump, has been
\* encoded and read back.
C12_Witness ==
    /\ ephase = "decoded" /\ eform = "SI"
    /\ \/ eops = << JOP("LOAD_INTEGER"), 3, -1 >> /\ efields.es = -1
       \/ eops = << JOP("JUMP_IF_NOT"), 2, -6 >> /\ efields.es = -6

\* ------------------------------------------------ the opcodes' arithmetic

RECURSIVE Pow2(_)
Pow2(n) == IF n = 0 THEN 1 ELSE 2 * Pow2(n - 1)

\* C's truncating integer division.
TruncDiv(x, y) ==
    LET ax == IF x < 0 THEN -x ELSE x
        ay == IF y < 0 THEN -y ELSE y
        q  == ax \div ay
    IN  IF (x < 0) = (y < 0) THEN q ELSE -q

LaneOp(op, x, y) ==
    LET a == ToU32(x)
        b == ToU32(y)
    IN  ToI32([i \in 1..4 |->
                 CASE op = "BAND" -> BitAnd(a[i], b[i])
                   [] op = "BOR"  -> BitOr(a[i], b[i])
                   [] OTHER       -> BitXor(a[i], b[i])])

ArithOps == { "ADD", "SUBTRACT", "MULTIPLY", "DIVIDE", "BAND", "BOR", "BXOR",
              "SHIFT_LEFT", "SHIFT_RIGHT", "SHIFT_RIGHT_UNSIGNED" }

CompareOps == { "GREATER_THAN", "LESS_THAN", "EQUALS",
                "NUMERIC_GREATER_THAN", "NUMERIC_LESS_THAN",
                "NUMERIC_GREATER_THAN_EQUAL", "NUMERIC_LESS_THAN_EQUAL",
                "NUMERIC_EQUAL" }

\* Whether the binary opcode has a value on the integers x and y: division by
\* zero raises an error; a shift of a negative number or by a count outside
\* 0..31 is undefined in C and is kept out of the argument lists (ArgVals).
ArithDefined(op, x, y) ==
    CASE op = "DIVIDE" -> y # 0
      [] op \in {"SHIFT_LEFT", "SHIFT_RIGHT", "SHIFT_RIGHT_UNSIGNED"} ->
            y >= 0 /\ y < 32 /\ x >= 0
      [] OTHER -> TRUE

\* The binary opcodes on two integers.
Arith(op, x, y) ==
    CASE op = "ADD"      -> x + y
      [] op = "SUBTRACT" -> x - y
      [] op = "MULTIPLY" -> x * y
      [] op = "DIVIDE"   -> TruncDiv(x, y)
      [] op \in {"BAND", "BOR", "BXOR"} -> LaneOp(op, x, y)
      [] op = "SHIFT_LEFT" -> x * Pow2(y)
      [] op \in {"SHIFT_RIGHT", "SHIFT_RIGHT_UNSIGNED"} -> x \div Pow2(y)

\* The comparison opcodes on two integers.
Compare(op, x, y) ==
    CASE op \in {"GREATER_THAN", "NUMERIC_GREATER_THAN"} -> x > y
      [] op \in {"LESS_THAN", "NUMERIC_LESS_THAN"}       -> x < y
      [] op \in {"EQUALS", "NUMERIC_EQUAL"}              -> x = y
      [] op = "NUMERIC_GREATER_THAN_EQUAL"               -> x >= y
      [] op = "NUMERIC_LESS_THAN_EQUAL"                  -> x <= y

\* janet_length
Length(x) == Len(x.v)

\* janet_getindex and janet_get on a tuple: nil out of range.
GetIndex(ds, i) == IF i >= 0 /\ i < Len(ds.v) THEN ds.v[i + 1] ELSE NilV

\* janet_put on an array: the array grows with nil up to the index.
ArrayPut(s, i, x) ==
    [k \in 1..(IF i + 1 > Len(s) THEN i + 1 ELSE Len(s)) |->
        IF k = i + 1 THEN x ELSE IF k <= Len(s) THEN s[k] ELSE NilV]

\* The values a fiber is resumed with or hands back.
ResumeVals == { NilV, IntV(0) }

\* The register indices the instruction word w addresses: A, B and C of the
\* three-register opcodes, A and B of those with an immediate or a signal
\* number in C, A and E, A alone, or D.
Addressed(w) ==
    LET op == OpName(FieldOp(w))
    IN  CASE op \in ArithOps \cup CompareOps
                 \cup { "EQUALS_INTEGER", "GET", "PUT", "RESUME" } ->
                { FieldA(w), FieldB(w), FieldC(w) }
          [] op \in { "EQUALS_IMMEDIATE", "LESS_THAN_IMMEDIATE", "ADD_IMMEDIATE",
                      "GET_INDEX", "SIGNAL" } ->
                { FieldA(w), FieldB(w) }
          [] op \in { "LENGTH", "MOVE_NEAR", "BNOT" } ->
                { FieldA(w), FieldE(w) }
          [] op \in { "LOAD_INTEGER", "JUMP_IF", "JUMP_IF_NOT", "ERROR" } ->
                { FieldA(w) }
          [] op \in { "LOAD_TRUE", "LOAD_FALSE", "PUSH", "PUSH_ARRAY", "TAILCALL",
                      "RETURN" } ->
                { FieldD(w) }
          [] OTHER -> { }

\* ------------------------------------------------------ the instructions

Advance(newstack) ==
    /\ stack' = newstack
    /\ pc' = pc + 1
    /\ UNCHANGED << fn, args, pushed, status, ret, evals, dictvars, gcvars, natvars, envvars, encvars >>

Throw(msg) ==
    /\ status' = "error"
    /\ ret' = StrV(msg)
    /\ UNCHANGED << fn, args, stack, pc, pushed, evals, dictvars, gcvars, natvars, envvars, encvars >>

Jump(offset) ==
    /\ pc' = pc + offset
    /\ UNCHANGED << fn, args, stack, pushed, status, ret, evals, dictvars, gcvars, natvars, envvars, encvars >>

\* JOP_LENGTH: stack[A] = length(stack[E])
ExecLength ==
    /\ Running("LENGTH")
    /\ IF Reg(OperandE).t \in {"tuple", "array"}
       THEN Advance(SetReg(OperandA, IntV(Length(Reg(OperandE)))))
       ELSE Throw("expected finite collection")

\* JOP_EQUALS_IMMEDIATE: stack[A] = (stack[B] == CS)
ExecEqualsImmediate ==
    /\ Running("EQUALS_IMMEDIATE")
    /\ Advance(SetReg(OperandA, BoolV(Reg(OperandB).v = OperandCS)))

\* JOP_LESS_THAN_IMMEDIATE: stack[A] = (stack[B] < CS)
ExecLessThanImmediate ==
    /\ Running("LESS_THAN_IMMEDIATE")
    /\ Advance(SetReg(OperandA, BoolV(Reg(OperandB).v < OperandCS)))

\* JOP_EQUALS_INTEGER: stack[A] = (stack[B] == stack[C])
ExecEqualsInteger ==
    /\ Running("EQUALS_INTEGER")
    /\ Advance(SetReg(OperandA, BoolV(Reg(OperandB).v = Reg(OperandC).v)))

\* JOP_ADD_IMMEDIATE: stack[A] = stack[B] + CS
ExecAddImmediate ==
    /\ Running("ADD_IMMEDIATE")
    /\ Advance(SetReg(OperandA, IntV(Reg(OperandB).v + OperandCS)))

\* JOP_LOAD_INTEGER: stack[A] = ES
ExecLoadInteger ==
    /\ Running("LOAD_INTEGER")
    /\ Advance(SetReg(OperandA, IntV(OperandES)))

\* JOP_LOAD_TRUE: stack[D] = true
ExecLoadTrue ==
    /\ Running("LOAD_TRUE")
    /\ Advance(SetReg(OperandD, BoolV(TRUE)))

\* JOP_LOAD_FALSE: stack[D] = false
ExecLoadFalse ==
    /\ Running("LOAD_FALSE")
    /\ Advance(SetReg(OperandD, BoolV(FALSE)))

\* JOP_MOVE_NEAR: stack[A] = stack[E]
ExecMoveNear ==
    /\ Running("MOVE_NEAR")
    /\ Advance(SetReg(OperandA, Reg(OperandE)))

\* JOP_GET_INDEX: stack[A] = stack[B][C]
ExecGetIndex ==
    /\ Running("GET_INDEX")
    /\ Advance(SetReg(OperandA, GetIndex(Reg(OperandB), OperandC)))

\* JOP_GET: stack[A] = stack[B][stack[C]]
ExecGet ==
    /\ Running("GET")
    /\ IF Reg(OperandB).t \in {"tuple", "array"} /\ Reg(OperandC).t = "integer"
       THEN Advance(SetReg(OperandA, GetIndex(Reg(OperandB), Reg(OperandC).v)))
       ELSE \/ Advance(SetReg(OperandA, NilV))
            \/ Throw("cannot get")

\* JOP_PUT: stack[A][stack[B]] = stack[C]
ExecPut ==
    /\ Running("PUT")
    /\ LET ds  == Reg(OperandA)
           key == Reg(OperandB)
       IN  IF ds.t = "array" /\ key.t = "integer" /\ key.v >= 0
           THEN Advance(SetReg(OperandA, ArrayV(ArrayPut(ds.v, key.v, Reg(OperandC)))))
           ELSE Throw("cannot put")

\* JOP_BNOT: stack[A] = ~stack[E]
ExecBnot ==
    /\ Running("BNOT")
    /\ IF Reg(OperandE).t = "integer"
       THEN Advance(SetReg(OperandA, IntV((-Reg(OperandE).v) - 1)))
       ELSE Throw("expected integer")

\* JOP_ERROR: throw stack[A]
ExecError ==
    /\ Running("ERROR")
    /\ status' = "error"
    /\ ret' = Reg(OperandA)
    /\ UNCHANGED << fn, args, stack, pc, pushed, evals, dictvars, gcvars, natvars, envvars, encvars >>

\* JOP_SIGNAL: the fiber is suspended with signal C and value stack[B]
ExecSignal ==
    /\ Running("SIGNAL")
    /\ status' = "suspended"
    /\ ret' = Reg(OperandB)
    /\ UNCHANGED << fn, args, stack, pc, pushed, evals, dictvars, gcvars, natvars, envvars, encvars >>

\* The suspended fiber is resumed with a value: stack[A] of the signal
\* instruction receives it and execution goes on after the instruction.  A
\* fiber that is never resumed stays suspended.
Continue ==
    /\ status = "suspended"
    /\ \E x \in ResumeVals :
          /\ stack' = SetReg(OperandA, x)
          /\ pc' = pc + 1
          /\ status' = "running"
          /\ UNCHANGED << fn, args, pushed, ret, evals, dictvars, gcvars, natvars, envvars, encvars >>

\* JOP_RESUME: stack[A] = what the fiber stack[B], resumed with stack[C],
\* hands back; an error in the fiber, or stack[B] not being a fiber, is an
\* error here.
ExecResume ==
    /\ Running("RESUME")
    /\ IF Reg(OperandB).t = "fiber"
       THEN \/ \E out \in ResumeVals : Advance(SetReg(OperandA, out))
            \/ Throw("error in fiber")
       ELSE Throw("expected fiber")

\* JOP_RETURN_NIL: return nil
ExecReturnNil ==
    /\ Running("RETURN_NIL")
    /\ status' = "returned"
    /\ ret' = NilV
    /\ UNCHANGED << fn, args, stack, pc, pushed, evals, dictvars, gcvars, natvars, envvars, encvars >>

\* JOP_JUMP: pc += DS
ExecJump ==
    /\ Running("JUMP")
    /\ Jump(OperandDS)

\* JOP_JUMP_IF: if (truthy(stack[A])) pc += ES; else pc++
ExecJumpIf ==
    /\ Running("JUMP_IF")
    /\ Jump(IF Truthy(Reg(OperandA)) THEN OperandES ELSE 1)

\* JOP_JUMP_IF_NOT: if (truthy(stack[A])) pc++; else pc += ES
ExecJumpIfNot ==
    /\ Running("JUMP_IF_NOT")
    /\ Jump(IF Truthy(Reg(OperandA)) THEN 1 ELSE OperandES)

\* The binary arithmetic and bitwise opcodes: stack[A] = stack[B] op stack[C]
ExecArith ==
    /\ status = "running" /\ pc >= 0 /\ pc < fn.bytecode_length
    /\ Opcode \in ArithOps
    /\ LET x == Reg(OperandB)
           y == Reg(OperandC)
       IN  IF x.t = "integer" /\ y.t = "integer" /\ ArithDefined(Opcode, x.v, y.v)
           THEN /\ stack' = SetReg(OperandA, IntV(Arith(Opcode, x.v, y.v)))
                /\ pc' = pc + 1
                /\ evals' = Append(evals, << x, y >>)
                /\ UNCHANGED << fn, args, pushed, status, ret, dictvars, gcvars, natvars, envvars, encvars >>
           ELSE /\ status' = "error"
                /\ ret' = StrV("arithmetic error")
                /\ evals' = Append(evals, << x, y >>)
                /\ UNCHANGED << fn, args, stack, pc, pushed, dictvars, gcvars, natvars, envvars, encvars >>

\* The comparison opcodes: stack[A] = stack[B] op stack[C]
ExecCompare ==
    /\ status = "running" /\ pc >= 0 /\ pc < fn.bytecode_length
    /\ Opcode \in CompareOps
    /\ LET x == Reg(OperandB)
           y == Reg(OperandC)
       IN  /\ stack' = SetReg(OperandA, BoolV(Compare(Opcode, x.v, y.v)))
           /\ pc' = pc + 1
           /\ evals' = Append(evals, << x, y >>)
           /\ UNCHANGED << fn, args, pushed, status, ret, dictvars, gcvars, natvars, envvars, encvars >>

\* JOP_PUSH: push stack[D] for the next call
ExecPush ==
    /\ Running("PUSH")
    /\ pushed' = Append(pushed, Reg(OperandD))
    /\ pc' = pc + 1
    /\ UNCHANGED << fn, args, stack, status, ret, evals, dictvars, gcvars, natvars, envvars, encvars >>

\* JOP_PUSH_ARRAY: push every element of stack[D], which must be indexed
ExecPushArray ==
    /\ Running("PUSH_ARRAY")
    /\ IF Reg(OperandD).t = "tuple"
       THEN /\ pushed' = pushed \o Reg(OperandD).v
            /\ pc' = pc + 1
            /\ UNCHANGED << fn, args, stack, status, ret, evals, dictvars, gcvars, natvars, envvars, encvars >>
       ELSE Throw("expected array/tuple")

\* JOP_TAILCALL: leave the frame and call stack[D] with the pushed values
ExecTailcall ==
    /\ Running("TAILCALL")
    /\ status' = "tailcall"
    /\ ret' = Reg(OperandD)
    /\ UNCHANGED << fn, args, stack, pc, pushed, evals, dictvars, gcvars, natvars, envvars, encvars >>

\* JOP_RETURN: return stack[D]
ExecReturn ==
    /\ Running("RETURN")
    /\ status' = "returned"
    /\ ret' = Reg(OperandD)
    /\ UNCHANGED << fn, args, stack, pc, pushed, evals, dictvars, gcvars, natvars, envvars, encvars >>

\* ------------------------------------------------------------- the calls

\* Longest list of extra arguments handed to apply, and longest spread tuple.
MaxExtra == 2
MaxSpread == 2

ArgVals == 0..MaxVal

IntSeqs(n) == UNION { [1..k -> { IntV(x) : x \in ArgVals }] : k \in 0..n }

\* The argument lists of the reducers and comparators: every list of at most
\* MaxArgs integers, and the lists of (+ 5) and (+ 1 2 3).
NumberArgs == IntSeqs(MaxArgs) \cup { << IntV(5) >>, << IntV(1), IntV(2), IntV(3) >> }

\* The argument lists of apply: f, then at most MaxExtra extra arguments the
\* last of which is a tuple or (an error) an integer; and apply(f, 1, 2, [3, 4]).
ApplyArgs ==
    LET lasts == { TupleV(t) : t \in IntSeqs(MaxSpread) } \cup { IntV(x) : x \in ArgVals }
        extra == { <<>> } \cup
                 { Append(front, last) : front \in IntSeqs(MaxExtra - 1), last \in lasts }
    IN  { << FunV("f") >> \o e : e \in extra } \cup
        { << FunV("f"), IntV(1), IntV(2), TupleV(<< IntV(3), IntV(4) >>) >> }

\* The values handed to the fixed sequences.
FixedVals ==
    { NilV, IntV(0), IntV(1), TupleV(<< IntV(1), IntV(2) >>),
      ArrayV(<< IntV(0) >>), FiberV("fiber") }

\* The argument lists of the fixed sequences: every list of at most MaxArgs
\* of these values, whatever the arity.
FixedArgs == UNION { [1..k -> FixedVals] : k \in 0..MaxArgs }

\* The frame of a call: the first `arity` slots hold the arguments, the next
\* one the tuple of the remaining arguments of a variadic function.
Frame(def, as) ==
    [ i \in 1..def.slotcount |->
        IF i <= def.arity
        THEN (IF i <= Len(as) THEN as[i] ELSE NilV)
        ELSE IF def.vararg /\ i = def.arity + 1
        THEN TupleV(SubSeq(as, def.arity + 1, Len(as)))
        ELSE NilV ]

InitVM ==
    /\ \E name \in AssembledNames :
          /\ fn = AssembledFunction(name)
          /\ args \in (IF name = "apply" THEN ApplyArgs
                       ELSE IF name \in FixedNames THEN FixedArgs
                       ELSE NumberArgs)
          /\ stack = Frame(AssembledFunction(name), args)
    /\ pc = 0
    /\ pushed = << >>
    /\ status = "running"
    /\ ret = NilV
    /\ evals = << >>

NextVM ==
    \/ ExecLength
    \/ ExecEqualsImmediate
    \/ ExecLessThanImmediate
    \/ ExecEqualsInteger
    \/ ExecAddImmediate
    \/ ExecLoadInteger
    \/ ExecLoadTrue
    \/ ExecLoadFalse
    \/ ExecMoveNear
    \/ ExecGetIndex
    \/ ExecGet
    \/ ExecJump
    \/ ExecJumpIf
    \/ ExecJumpIfNot
    \/ ExecArith
    \/ ExecCompare
    \/ ExecPush
    \/ ExecPushArray
    \/ ExecTailcall
    \/ ExecReturn
    \/ ExecPut
    \/ ExecBnot
    \/ ExecError
    \/ ExecSignal
    \/ Continue
    \/ ExecResume
    \/ ExecReturnNil


\* ---------------------------------------------- claims about the templates

Returned == status = "returned"

\* The left fold of op over as[i..], from the accumulator acc; ok is FALSE when
\* the opcode raises an error on the way.
RECURSIVE FoldLeft(_, _, _, _)
FoldLeft(op, acc, as, i) ==
    IF i > Len(as) THEN [ok |-> TRUE, v |-> acc]
    ELSE IF ~ArithDefined(op, acc, as[i].v) THEN [ok |-> FALSE, v |-> 0]
    ELSE FoldLeft(op, Arith(op, acc, as[i].v), as, i + 1)

\* What the reducer registered with (nullary, unary, op) is to return on as.
ReducerResult(nullary, unary, op, as) ==
    IF Len(as) = 0 THEN [ok |-> TRUE, v |-> nullary]
    ELSE IF Len(as) = 1 THEN FoldLeft(op, unary, as, 1)
    ELSE FoldLeft(op, as[1].v, as, 2)

\* C1: a reducer assembled with opcode op, nullary n and unary u returns n on
\* no arguments, op(u, x) on one argument x, and the left fold of op over two
\* or more arguments, in call order, a1 seeding the accumulator and every
\* later argument combined exactly once; it ends in an error exactly when op
\* raises one on the way. With the registered constants (+) = 0, (+ 5) = 5,
\* (+ 1 2 3) = 6, (*) = 1, (* 5) = 5 and (&) = -1.
C1_ReducerLeftFold ==
    fn.kind = "varop" =>
        LET e == VarOpEntry(fn.name)
            r == ReducerResult(e[2], e[3], e[4], args)
            n == Len(args)
        IN  /\ Returned =>
                /\ r.ok
                /\ ret = IntV(r.v)
                /\ Len(evals) = (IF n = 0 THEN 0 ELSE IF n = 1 THEN 1 ELSE n - 1)
                /\ n = 1 => evals[1] = << IntV(e[3]), args[1] >>
                /\ n >= 2 => /\ evals[1][1] = args[1]
                             /\ \A i \in 1..(n - 1) : evals[i][2] = args[i + 1]
            /\ status = "error" => ~r.ok
            /\ status \in {"running", "returned", "error"}
            /\ (Returned /\ fn.name = "+" /\ n = 0) => ret.v = 0
            /\ (Returned /\ fn.name = "+" /\ args = << IntV(5) >>) => ret.v = 5
            /\ (Returned /\ fn.name = "+" /\ args = << IntV(1), IntV(2), IntV(3) >>)
                  => ret.v = 6
            /\ (Returned /\ fn.name = "*" /\ n = 0) => ret.v = 1
            /\ (Returned /\ fn.name = "*" /\ args = << IntV(5) >>) => ret.v = 5
            /\ (Returned /\ fn.name = "&" /\ n = 0) => ret.v = -1

\* (- a b c) has returned (a - b) - c, which differs from a - (b - c).
C1_Witness ==
    /\ fn.kind = "varop" /\ fn.name = "-" /\ Len(args) = 3 /\ Returned
    /\ ret.v = (args[1].v - args[2].v) - args[3].v
    /\ ret.v # args[1].v - (args[2].v - args[3].v)
    /\ Len(evals) = 2

\* C2: every registered comparator, inverted or not, returns true on zero
\* arguments and on one argument, without evaluating its opcode.
C2_FewArgumentsTrue ==
    (fn.kind = "comparator" /\ Len(args) < 2 /\ Returned) =>
        (ret = BoolV(TRUE) /\ evals = << >>)

\* Whether the comparator's opcode holds of as[i], as[i + 1].
PairHolds(op, as, i) == Compare(op, as[i].v, as[i + 1].v)

\* C3: on k >= 2 arguments a comparator evaluates op(a_i, a_i+1) for
\* i = 1, 2, ... in order, stops at the first pair for which op is false and
\* then returns false (true if inverted), and returns true (false if
\* inverted) only after all k - 1 pairs were evaluated and found true.
C3_ChainShortCircuit ==
    (fn.kind = "comparator" /\ Len(args) >= 2) =>
        LET e == ComparatorEntry(fn.name)
            k == Len(args)
            n == Len(evals)
        IN  /\ n <= k - 1
            /\ \A i \in 1..n : evals[i] = << args[i], args[i + 1] >>
            /\ \A i \in 1..(n - 1) : PairHolds(e[3], args, i)
            /\ status # "error"
            /\ Returned =>
                  /\ n >= 1
                  /\ IF PairHolds(e[3], args, n)
                     THEN n = k - 1 /\ ret = BoolV(~e[2])
                     ELSE ret = BoolV(e[2])

\* An inverted comparator has stopped at the first of two pairs.
C3_Witness ==
    /\ fn.kind = "comparator" /\ ComparatorEntry(fn.name)[2]
    /\ Len(args) = 3 /\ Returned /\ Len(evals) = 1
    /\ ret = BoolV(TRUE)
    /\ PairHolds(ComparatorEntry(fn.name)[3], args, 2)

\* C4: on two or more arguments order>= returns true exactly when every
\* adjacent pair satisfies NOT(previous < current), and order<= exactly when
\* every adjacent pair satisfies NOT(previous > current).
C4_InvertedIsPairwiseNegation ==
    (fn.kind = "comparator" /\ fn.name \in {"order>=", "order<="}
        /\ Len(args) >= 2 /\ Returned) =>
        (ret.v <=> \A i \in 1..(Len(args) - 1) :
                      ~PairHolds(ComparatorEntry(fn.name)[3], args, i))

\* C5: apply(f, x1, ..., xm) with xm a tuple tail-calls f with x1..x(m-1)
\* followed by the elements of xm, in that order; with m = 0 it tail-calls f
\* with nothing pushed; it never tail-calls when xm is not a sequence.
C5_ApplySpreadsLast ==
    fn.kind = "apply" =>
        LET m == Len(args) - 1
        IN  /\ status = "tailcall" =>
                /\ ret = args[1]
                /\ m = 0 => pushed = << >>
                /\ m >= 1 => /\ args[m + 1].t = "tuple"
                             /\ pushed = SubSeq(args, 2, m) \o args[m + 1].v
            /\ status = "error" => (m >= 1 /\ args[m + 1].t # "tuple")
            /\ status # "returned"

\* apply(f, 1, 2, [3, 4]) has tail-called f with (1, 2, 3, 4).
C5_Witness ==
    /\ fn.kind = "apply" /\ status = "tailcall"
    /\ args = << FunV("f"), IntV(1), IntV(2), TupleV(<< IntV(3), IntV(4) >>) >>
    /\ pushed = << IntV(1), IntV(2), IntV(3), IntV(4) >>

\* C13: every sequence this file assembles is well formed for the length and
\* the slot count handed to janet_quick_asm: for every argument count,
\* execution from instruction 0 never addresses a register index at or above
\* the slot count, every taken jump lands inside the sequence, and the
\* program counter never runs past the last instruction: execution ends only
\* at a return, a tail call or an error.
C13_SequencesWellFormed ==
    status \in {"running", "suspended"} =>
        /\ pc >= 0 /\ pc < fn.bytecode_length
        /\ Len(stack) = fn.slotcount
        /\ \A r \in Addressed(Instr) : r < fn.slotcount

\* A reducer called with MaxArgs arguments is at the backward jump that
\* closes its loop, about to take it, having addressed register 5, the
\* highest of its six slots.
C13_Witness ==
    /\ fn.kind = "varop" /\ status = "running" /\ Len(args) = MaxArgs
    /\ Opcode = "JUMP_IF_NOT" /\ OperandES < 0 /\ ~Truthy(Reg(OperandA))
    /\ Reg(5) = IntV(2)

\* ---------------------------------------------------- tables and structs

EmptyKV == [key |-> NilV, value |-> NilV]

\* janet_table(capacity), janet_struct_begin(count): room for the entries,
\* all buckets empty.
NewBuckets(count) == [i \in 1..(2 * count) |-> EmptyKV]

Hash(key, cap) == (key.v % cap) + 1

\* The bucket holding key, probing from its hash; 0 (NULL) when no bucket does.
Find(buckets, key) ==
    IF \E i \in 1..Len(buckets) : buckets[i].key = key
    THEN CHOOSE i \in 1..Len(buckets) : buckets[i].key = key
    ELSE 0

\* The first empty bucket probing from the key's hash, wrapping around.
FreeBucket(buckets, key) ==
    LET cap == Len(buckets)
        at(d) == ((Hash(key, cap) - 1 + d) % cap) + 1
        dist == CHOOSE d \in 0..(cap - 1) :
                    /\ buckets[at(d)] = EmptyKV
                    /\ \A e \in 0..(d - 1) : buckets[at(e)] # EmptyKV
    IN  at(dist)

\* janet_table_put, janet_struct_put: a key already present gets the new
\* value, a new key the first free bucket.
Put(buckets, key, value) ==
    LET found == Find(buckets, key)
    IN  IF found # 0
        THEN [buckets EXCEPT ![found].value = value]
        ELSE [buckets EXCEPT ![FreeBucket(buckets, key)] = [key |-> key, value |-> value]]

\* janet_table_next, janet_struct_next: the first non-empty bucket after kv
\* (from the start when kv is NULL); 0 (NULL) when there is none.
NextBucket(buckets, kv) ==
    LET later == { i \in (kv + 1)..Len(buckets) : buckets[i] # EmptyKV }
    IN  IF later = {} THEN 0 ELSE CHOOSE i \in later : \A j \in later : i <= j

\* janet_core_table with its loop starting at the second pair.
RECURSIVE PutPairs(_, _, _)
PutPairs(buckets, as, i) ==
    IF i >= Len(as) THEN buckets
    ELSE PutPairs(Put(buckets, as[i + 1], as[i + 2]), as, i + 2)

janet_core_table_skip_first(as) ==
    IF Len(as) % 2 = 1
    THEN [status |-> "error", ret |-> StrV("expected even number of arguments")]
    ELSE [status |-> "ok",
          ret |-> [t |-> "table", v |-> PutPairs(NewBuckets(Len(as) \div 2), as, 2)]]

\* janet_core_table: for (i = 0; i < args.n; i += 2) janet_table_put(...)
janet_core_table(as) ==
    IF Len(as) % 2 = 1
    THEN [status |-> "error", ret |-> StrV("expected even number of arguments")]
    ELSE [status |-> "ok",
          ret |-> [t |-> "table", v |-> PutPairs(NewBuckets(Len(as) \div 2), as, 0)]]

\* janet_core_struct
janet_core_struct(as) ==
    IF Len(as) % 2 = 1
    THEN [status |-> "error", ret |-> StrV("expected even number of arguments")]
    ELSE [status |-> "ok",
          ret |-> [t |-> "struct", v |-> PutPairs(NewBuckets(Len(as) \div 2), as, 0)]]

\* janet_core_next that never looks the key up.
janet_core_next_from_start(as) ==
    IF Len(as) # 2
    THEN [status |-> "error", ret |-> StrV("wrong arity")]
    ELSE IF as[1].t \notin {"table", "struct"}
    THEN [status |-> "error", ret |-> StrV("bad slot #0, expected table|struct")]
    ELSE LET kv == NextBucket(as[1].v, 0)
         IN  [status |-> "ok", ret |-> IF kv # 0 THEN as[1].v[kv].key ELSE NilV]

\* janet_core_next
janet_core_next(as) ==
    IF Len(as) # 2
    THEN [status |-> "error", ret |-> StrV("wrong arity")]
    ELSE IF as[1].t \notin {"table", "struct"}
    THEN [status |-> "error", ret |-> StrV("bad slot #0, expected table|struct")]
    ELSE LET found == IF as[2].t = "nil" THEN 0 ELSE Find(as[1].v, as[2])
             kv == NextBucket(as[1].v, found)
         IN  [status |-> "ok", ret |-> IF kv # 0 THEN as[1].v[kv].key ELSE NilV]

\* The argument lists of table and struct: at most 2 * MaxPairs integers.
PairArgs == IntSeqs(2 * MaxPairs)

\* (table & kvs)
CoreTable ==
    /\ dstatus = "none"
    /\ \E as \in PairArgs :
          /\ dcall' = [name |-> "table", args |-> as]
          /\ dstatus' = janet_core_table(as).status
          /\ dret' = janet_core_table(as).ret
    /\ UNCHANGED << ncall, nstatus, nret, cur, visited, walk >>
    /\ UNCHANGED << vmvars, gcvars, natvars, envvars, encvars >>

\* (struct & kvs)
CoreStruct ==
    /\ dstatus = "none"
    /\ \E as \in PairArgs :
          /\ dcall' = [name |-> "struct", args |-> as]
          /\ dstatus' = janet_core_struct(as).status
          /\ dret' = janet_core_struct(as).ret
    /\ UNCHANGED << ncall, nstatus, nret, cur, visited, walk >>
    /\ UNCHANGED << vmvars, gcvars, natvars, envvars, encvars >>

\* (next dict key): the walk hands next the value the constructor returned
\* and the key next returned last, nil at first.
CoreNext ==
    /\ dstatus # "none"
    /\ walk = "walking"
    /\ nstatus # "error"
    /\ LET as == << dret, cur >>
           r  == janet_core_next(as)
       IN  /\ ncall' = as
           /\ nstatus' = r.status
           /\ nret' = r.ret
           /\ IF r.status = "ok" /\ r.ret.t # "nil"
              THEN cur' = r.ret /\ visited' = Append(visited, r.ret) /\ walk' = walk
              ELSE IF r.status = "ok"
              THEN walk' = "done" /\ UNCHANGED << cur, visited >>
              ELSE UNCHANGED << cur, visited, walk >>
    /\ UNCHANGED << dcall, dstatus, dret >>
    /\ UNCHANGED << vmvars, gcvars, natvars, envvars, encvars >>

\* (next x key) on an integer x, and next with a missing argument.
CoreNextBadCall ==
    /\ dstatus # "none"
    /\ nstatus = "none"
    /\ \E as \in { << IntV(x), NilV >> : x \in ArgVals } \cup { << dret >> } :
          /\ ncall' = as
          /\ nstatus' = janet_core_next(as).status
          /\ nret' = janet_core_next(as).ret
    /\ UNCHANGED << dcall, dstatus, dret, cur, visited, walk >>
    /\ UNCHANGED << vmvars, gcvars, natvars, envvars, encvars >>

InitDict ==
    /\ dcall = [name |-> "none", args |-> << >>]
    /\ dstatus = "none"
    /\ dret = NilV
    /\ ncall = << >>
    /\ nstatus = "none"
    /\ nret = NilV
    /\ cur = NilV
    /\ visited = << >>
    /\ walk = "walking"

NextDict ==
    \/ CoreTable
    \/ CoreStruct
    \/ CoreNext
    \/ CoreNextBadCall


\* The keys of a container, the value bound to a key, and the number of
\* non-empty buckets.
KeysOf(d) == { d.v[i].key : i \in { j \in 1..Len(d.v) : d.v[j] # EmptyKV } }
ValueOf(d, key) == d.v[Find(d.v, key)].value
CountOf(d) == Cardinality({ j \in 1..Len(d.v) : d.v[j] # EmptyKV })

\* The position of the last occurrence of key among the keys of as.
LastAt(as, key) ==
    CHOOSE i \in 1..(Len(as) \div 2) :
        /\ as[2 * i - 1] = key
        /\ \A j \in (i + 1)..(Len(as) \div 2) : as[2 * j - 1] # key

\* C6: table and struct on an odd number of arguments end in an error and
\* return no container; on k1, v1, ..., kn, vn they return a container of
\* their kind whose keys are exactly the distinct keys given, each bound once,
\* to the value of its last occurrence.
C6_EvenPairsLastWins ==
    dstatus # "none" =>
        LET as == dcall.args
        IN  IF Len(as) % 2 = 1
            THEN dstatus = "error" /\ dret.t = "string"
            ELSE /\ dstatus = "ok"
                 /\ dret.t = dcall.name
                 /\ KeysOf(dret) = { as[2 * i - 1] : i \in 1..(Len(as) \div 2) }
                 /\ CountOf(dret) = Cardinality(KeysOf(dret))
                 /\ \A key \in KeysOf(dret) :
                       ValueOf(dret, key) = as[2 * LastAt(as, key)]

\* A struct was built from k, v1, k, v2 with v1 # v2: one key, bound to v2.
C6_Witness ==
    /\ dstatus = "ok" /\ dcall.name = "struct" /\ Len(dcall.args) = 4
    /\ dcall.args[1] = dcall.args[3] /\ dcall.args[2] # dcall.args[4]
    /\ CountOf(dret) = 1
    /\ ValueOf(dret, dcall.args[1]) = dcall.args[4]

\* C7: walking a table or struct with next, from nil and then from the key
\* returned last, returns every key exactly once and then nil, after exactly
\* as many keys as the container has; next on a value that is neither a table
\* nor a struct ends in an error.
C7_NextVisitsEachKeyOnce ==
    /\ (dstatus = "ok") =>
          /\ \A i, j \in 1..Len(visited) : visited[i] = visited[j] => i = j
          /\ { visited[i] : i \in 1..Len(visited) } \subseteq KeysOf(dret)
          /\ walk = "done" =>
                /\ { visited[i] : i \in 1..Len(visited) } = KeysOf(dret)
                /\ Len(visited) = CountOf(dret)
          /\ (walk = "walking" /\ nstatus # "error" /\ Len(visited) = CountOf(dret)) =>
                janet_core_next(<< dret, cur >>).ret = NilV
    /\ (nstatus # "none" /\ Len(ncall) = 2 /\ ncall[1].t \notin {"table", "struct"}) =>
          nstatus = "error"
    /\ (nstatus # "none" /\ Len(ncall) = 2 /\ ncall[1].t \in {"table", "struct"}) =>
          nstatus = "ok"

\* A walk over a table of two keys has ended, both keys seen.
C7_Witness ==
    /\ dstatus = "ok" /\ dcall.name = "table" /\ walk = "done"
    /\ CountOf(dret) = 2 /\ Len(visited) = 2 /\ visited[1] # visited[2]
    /\ nret = NilV

\* ------------------------------------------- gcsetinterval and gcinterval

\* janet_core_gcsetinterval without its range check.
janet_core_gcsetinterval_unchecked(as, interval) ==
    IF Len(as) # 1
    THEN [status |-> "error", ret |-> StrV("wrong arity"), interval |-> interval]
    ELSE IF as[1].t # "integer"
    THEN [status |-> "error", ret |-> StrV("bad slot #0, expected integer"),
          interval |-> interval]
    ELSE [status |-> "ok", ret |-> NilV, interval |-> ToU32(as[1].v)]

\* janet_core_gcsetinterval: the outcome of the call and the new value of
\* janet_vm_gc_interval.
janet_core_gcsetinterval(as, interval) ==
    IF Len(as) # 1
    THEN [status |-> "error", ret |-> StrV("wrong arity"), interval |-> interval]
    ELSE IF as[1].t # "integer"
    THEN [status |-> "error", ret |-> StrV("bad slot #0, expected integer"),
          interval |-> interval]
    ELSE IF as[1].v < 0
    THEN [status |-> "error", ret |-> StrV("expected non-negative integer"),
          interval |-> interval]
    ELSE [status |-> "ok", ret |-> NilV, interval |-> ToU32(as[1].v)]

\* janet_core_gcinterval
janet_core_gcinterval(as, interval) ==
    IF Len(as) # 0
    THEN [status |-> "error", ret |-> StrV("wrong arity")]
    ELSE [status |-> "ok", ret |-> IntV(ToI32(interval))]

\* The integers handed to gcsetinterval: INT32_MIN, -1, 0, 1, 2^16, INT32_MAX.
IntervalVals == { (-2147483647) - 1, -1, 0, 1, 65536, 2147483647 }

SetIntervalArgs ==
    { << IntV(x) >> : x \in IntervalVals } \cup
    { << >>, << StrV("1") >>, << IntV(1), IntV(2) >> }

\* (gcsetinterval interval)
CoreGcSetInterval ==
    /\ ncalls < MaxCalls
    /\ \E as \in SetIntervalArgs :
          LET r == janet_core_gcsetinterval(as, janet_vm_gc_interval)
          IN  /\ gcall' = [name |-> "gcsetinterval", args |-> as]
              /\ gstatus' = r.status
              /\ gret' = r.ret
              /\ janet_vm_gc_interval' = r.interval
              /\ lastset' = IF r.status = "ok" THEN [set |-> TRUE, v |-> as[1].v]
                            ELSE lastset
    /\ before' = janet_vm_gc_interval
    /\ ncalls' = ncalls + 1
    /\ UNCHANGED << vmvars, dictvars, natvars, envvars, encvars >>

\* (gcinterval)
CoreGcInterval ==
    /\ ncalls < MaxCalls
    /\ \E as \in { << >>, << IntV(0) >> } :
          LET r == janet_core_gcinterval(as, janet_vm_gc_interval)
          IN  /\ gcall' = [name |-> "gcinterval", args |-> as]
              /\ gstatus' = r.status
              /\ gret' = r.ret
    /\ before' = janet_vm_gc_interval
    /\ ncalls' = ncalls + 1
    /\ UNCHANGED << janet_vm_gc_interval, lastset >>
    /\ UNCHANGED << vmvars, dictvars, natvars, envvars, encvars >>

\* janet_init leaves the interval at 0x10000.
InitGC ==
    /\ janet_vm_gc_interval = ToU32(65536)
    /\ gcall = [name |-> "none", args |-> << >>]
    /\ gstatus = "none"
    /\ gret = NilV
    /\ before = ToU32(65536)
    /\ lastset = [set |-> FALSE, v |-> 0]
    /\ ncalls = 0

\* C8: the threshold is never negative and gcinterval returns the argument of
\* the last gcsetinterval that succeeded; gcsetinterval on a negative integer
\* ends in an error and leaves the threshold unchanged, and on a non-negative
\* integer v sets it to exactly v.
C8_IntervalNeverNegative ==
    /\ ToI32(janet_vm_gc_interval) >= 0
    /\ lastset.set => ToI32(janet_vm_gc_interval) = lastset.v
    /\ (gcall.name = "gcinterval" /\ gcall.args = << >>) =>
          /\ gstatus = "ok"
          /\ gret = IntV(ToI32(janet_vm_gc_interval))
          /\ lastset.set => gret.v = lastset.v
    /\ (gcall.name = "gcsetinterval" /\ Len(gcall.args) = 1
           /\ gcall.args[1].t = "integer") =>
          IF gcall.args[1].v < 0
          THEN gstatus = "error" /\ janet_vm_gc_interval = before
          ELSE gstatus = "ok" /\ ToI32(janet_vm_gc_interval) = gcall.args[1].v
    /\ gstatus = "error" => janet_vm_gc_interval = before

\* gcsetinterval succeeded, a later gcsetinterval on a negative integer
\* failed, and the threshold is still the first call's argument.
C8_Witness ==
    /\ gcall.name = "gcsetinterval" /\ Len(gcall.args) = 1
    /\ gcall.args[1].t = "integer" /\ gcall.args[1].v < 0
    /\ gstatus = "error"
    /\ lastset.set /\ lastset.v = 2147483647
    /\ ToI32(janet_vm_gc_interval) = 2147483647

\* ----------------------------------------------------------------- native

NULL == [null |-> TRUE, of |-> ""]
Pointer(x) == [null |-> FALSE, of |-> x]

Builds == { "JANET_NO_DYNAMIC_MODULES", "JANET_WINDOWS", "posix" }
Paths == { "a.so", "b.so" }
Found == { "missing", "nosymbol", "ok" }
LoaderMessages == { "cannot open shared object file", "file too short" }

\* #define load_clib(name)
load_clib(name) ==
    IF build = "JANET_NO_DYNAMIC_MODULES" THEN NULL
    ELSE IF libs[name] = "missing" THEN NULL
    ELSE Pointer(name)

\* #define symbol_clib(lib, sym)
symbol_clib(lib, sym) ==
    IF build = "JANET_NO_DYNAMIC_MODULES" THEN NULL
    ELSE IF libs[lib.of] = "ok" /\ sym = "_janet_init" THEN Pointer(lib.of)
    ELSE NULL

\* #define error_clib()
error_clib ==
    IF build = "JANET_NO_DYNAMIC_MODULES" THEN "dynamic libraries not supported"
    ELSE IF build = "JANET_WINDOWS" THEN "could not load dynamic library"
    ELSE dlerr

\* janet_native that returns whatever symbol_clib gave.
janet_native_unchecked_symbol(name, error) ==
    LET lib == load_clib(name)
    IN  IF lib.null
        THEN [init |-> NULL, error |-> Pointer(error_clib)]
        ELSE [init |-> symbol_clib(lib, "_janet_init"), error |-> error]

\* janet_native: the callable returned and what *error holds afterwards.
janet_native(name, error) ==
    LET lib == load_clib(name)
    IN  IF lib.null
        THEN [init |-> NULL, error |-> Pointer(error_clib)]
        ELSE LET init == symbol_clib(lib, "_janet_init")
             IN  IF init.null
                 THEN [init |-> NULL,
                       error |-> Pointer("could not find _janet_init symbol")]
                 ELSE [init |-> init, error |-> error]

\* janet_core_native
janet_core_native(as) ==
    IF Len(as) # 1
    THEN [status |-> "error", ret |-> StrV("wrong arity"),
          res |-> [called |-> FALSE, init |-> NULL, error |-> NULL]]
    ELSE IF as[1].t # "string"
    THEN [status |-> "error", ret |-> StrV("bad slot #0, expected string"),
          res |-> [called |-> FALSE, init |-> NULL, error |-> NULL]]
    ELSE LET r == janet_native(as[1].v, NULL)
             res == [called |-> TRUE, init |-> r.init, error |-> r.error]
         IN  IF r.init.null
             THEN [status |-> "error", ret |-> StrV(r.error.of), res |-> res]
             ELSE [status |-> "ok", ret |-> [t |-> "cfunction", v |-> r.init.of],
                   res |-> res]

NativeArgs ==
    { << StrV(p) >> : p \in Paths } \cup
    { << >>, << IntV(0) >>, << StrV("a.so"), StrV("b.so") >> }

\* (native path)
CoreNative ==
    /\ natstatus = "none"
    /\ \E as \in NativeArgs :
          /\ natcall' = as
          /\ natstatus' = janet_core_native(as).status
          /\ natret' = janet_core_native(as).ret
          /\ natres' = janet_core_native(as).res
    /\ UNCHANGED << build, libs, dlerr >>
    /\ UNCHANGED << vmvars, dictvars, gcvars, envvars, encvars >>

NativeIdle ==
    /\ natcall = << >>
    /\ natstatus = "none"
    /\ natret = NilV
    /\ natres = [called |-> FALSE, init |-> NULL, error |-> NULL]

InitNative ==
    /\ build \in Builds
    /\ libs \in [Paths -> Found]
    /\ dlerr \in LoaderMessages
    /\ NativeIdle

\* What the loader finds at the path of the call.
FoundAt(path) ==
    IF build = "JANET_NO_DYNAMIC_MODULES" THEN "missing" ELSE libs[path]

\* C10: loading a native module has three outcomes: the unit cannot be
\* loaded, no callable is returned and the error is the loader's message; the
\* unit loads but _janet_init is not found, no callable is returned and the
\* error is 'could not find _janet_init symbol', which is not the loader's
\* message; both succeed, the callable is returned and no error is set. The
\* primitive throws the error whenever no callable is returned.
C10_NativeThreeOutcomes ==
    (natstatus # "none" /\ Len(natcall) = 1 /\ natcall[1].t = "string") =>
        LET path == natcall[1].v
        IN  /\ natres.called
            /\ FoundAt(path) = "missing" =>
                  /\ natres.init.null
                  /\ natres.error = Pointer(error_clib)
            /\ FoundAt(path) = "nosymbol" =>
                  /\ natres.init.null
                  /\ natres.error = Pointer("could not find _janet_init symbol")
                  /\ natres.error.of # error_clib
            /\ FoundAt(path) = "ok" =>
                  /\ natres.init = Pointer(path)
                  /\ natres.error.null
            /\ IF natres.init.null
               THEN natstatus = "error" /\ natret = StrV(natres.error.of)
                    /\ ~natres.error.null
               ELSE natstatus = "ok" /\ natret.t = "cfunction"
                    /\ natret.v = natres.init.of

\* A unit that loads but lacks _janet_init: native threw the fixed message.
C10_Witness ==
    /\ natstatus = "error" /\ Len(natcall) = 1 /\ natcall[1].t = "string"
    /\ build = "posix" /\ libs[natcall[1].v] = "nosymbol"
    /\ natret = StrV("could not find _janet_init symbol")

\* ---------------------------------------------------------- janet_core_env

\* The names of cfuns[], in order.
CfunNames ==
    << "native", "print", "describe", "string", "symbol", "buffer", "table",
       "array", "scan-number", "scan-integer", "scan-real", "tuple", "struct",
       "gensym", "gccollect", "gcsetinterval", "gcinterval", "type", "next",
       "hash" >>

\* The fixed sequences handed to janet_quick_asm, in order.
FixedAsmNames == << "debug", "error", "yield", "resume", "get", "put", "length", "~" >>

\* The auxiliary library modules, in order.
AuxLibs(asm) ==
    << "io", "math", "array", "tuple", "buffer", "table", "fiber", "os",
       "parse", "compile", "string", "marsh" >> \o (IF asm THEN << "asm" >> ELSE << >>)

Step(op, name) == [op |-> op, name |-> name]

\* The statements in an order that roots the environment only after the
\* auxiliary modules have run.
EnvSteps_root_after_libs(asm) ==
    << Step("alloc", ""), Step("cfuns", "") >>
    \o [i \in 1..Len(FixedAsmNames) |-> Step("quick_asm", FixedAsmNames[i])]
    \o << Step("quick_asm", "apply") >>
    \o [i \in 1..Len(VarOps) |-> Step("quick_asm", VarOps[i][1])]
    \o [i \in 1..Len(Comparators) |-> Step("quick_asm", Comparators[i][1])]
    \o << Step("def", "janet.version") >>
    \o [i \in 1..Len(AuxLibs(asm)) |-> Step("lib", AuxLibs(asm)[i])]
    \o << Step("gcroot", ""), Step("def", "_env"), Step("dobytes", ""),
          Step("return", "") >>

\* The statements of janet_core_env, in program order.
EnvSteps(asm) ==
    << Step("alloc", ""), Step("cfuns", "") >>
    \o [i \in 1..Len(FixedAsmNames) |-> Step("quick_asm", FixedAsmNames[i])]
    \o << Step("quick_asm", "apply") >>
    \o [i \in 1..Len(VarOps) |-> Step("quick_asm", VarOps[i][1])]
    \o [i \in 1..Len(Comparators) |-> Step("quick_asm", Comparators[i][1])]
    \o << Step("def", "janet.version"), Step("gcroot", "") >>
    \o [i \in 1..Len(AuxLibs(asm)) |-> Step("lib", AuxLibs(asm)[i])]
    \o << Step("def", "_env"), Step("dobytes", ""), Step("return", "") >>

AtStep(op) ==
    /\ epc >= 1 /\ epc <= Len(EnvSteps(assembler))
    /\ EnvSteps(assembler)[epc].op = op

StepName == EnvSteps(assembler)[epc].name

\* JanetTable *env = janet_table(0);
EnvAlloc ==
    /\ AtStep("alloc")
    /\ env' = << >>
    /\ epc' = epc + 1
    /\ UNCHANGED << assembler, rooted, auxrun, boot, handed >>
    /\ UNCHANGED << vmvars, dictvars, gcvars, natvars, encvars >>

\* janet_cfuns(env, NULL, cfuns);
EnvCfuns ==
    /\ AtStep("cfuns")
    /\ env' = env \o CfunNames
    /\ epc' = epc + 1
    /\ UNCHANGED << assembler, rooted, auxrun, boot, handed >>
    /\ UNCHANGED << vmvars, dictvars, gcvars, natvars, encvars >>

\* janet_quick_asm, make_apply, templatize_varop, templatize_comparator: the
\* function is bound under its name.
EnvQuickAsm ==
    /\ AtStep("quick_asm")
    /\ env' = Append(env, StepName)
    /\ epc' = epc + 1
    /\ UNCHANGED << assembler, rooted, auxrun, boot, handed >>
    /\ UNCHANGED << vmvars, dictvars, gcvars, natvars, encvars >>

\* janet_quick_asm: malloc fails, JANET_OUT_OF_MEMORY ends the process.
EnvOutOfMemory ==
    /\ AtStep("quick_asm")
    /\ epc' = 0
    /\ UNCHANGED << assembler, env, rooted, auxrun, boot, handed >>
    /\ UNCHANGED << vmvars, dictvars, gcvars, natvars, encvars >>

\* janet_def(env, "janet.version", ...); janet_def(env, "_env", ret, NULL);
EnvDef ==
    /\ AtStep("def")
    /\ env' = Append(env, StepName)
    /\ epc' = epc + 1
    /\ UNCHANGED << assembler, rooted, auxrun, boot, handed >>
    /\ UNCHANGED << vmvars, dictvars, gcvars, natvars, encvars >>

\* janet_gcroot(janet_wrap_table(env));
EnvGcRoot ==
    /\ AtStep("gcroot")
    /\ rooted' = TRUE
    /\ epc' = epc + 1
    /\ UNCHANGED << assembler, env, auxrun, boot, handed >>
    /\ UNCHANGED << vmvars, dictvars, gcvars, natvars, encvars >>

\* janet_lib_io(args); ... janet_lib_marsh(args); janet_lib_asm(args);
EnvAuxLib ==
    /\ AtStep("lib")
    /\ auxrun' = Append(auxrun, StepName)
    /\ epc' = epc + 1
    /\ UNCHANGED << assembler, env, rooted, boot, handed >>
    /\ UNCHANGED << vmvars, dictvars, gcvars, natvars, encvars >>

\* janet_dobytes(env, janet_gen_core, ...): the program runs to its end or
\* stops at an error; janet_dobytes returns its status either way, and the
\* status is dropped.
EnvDoBytes ==
    /\ AtStep("dobytes")
    /\ boot' \in { "ok", "error" }
    /\ epc' = epc + 1
    /\ UNCHANGED << assembler, env, rooted, auxrun, handed >>
    /\ UNCHANGED << vmvars, dictvars, gcvars, natvars, encvars >>

\* return env;
EnvReturn ==
    /\ AtStep("return")
    /\ handed' = TRUE
    /\ epc' = epc + 1
    /\ UNCHANGED << assembler, env, rooted, auxrun, boot >>
    /\ UNCHANGED << vmvars, dictvars, gcvars, natvars, encvars >>

EnvIdle ==
    /\ epc = 1
    /\ env = << >>
    /\ rooted = FALSE
    /\ auxrun = << >>
    /\ boot = "none"
    /\ handed = FALSE

InitEnv ==
    /\ assembler \in BOOLEAN
    /\ EnvIdle

\* C9: if executing the bootstrap program fails, janet_core_env hands no
\* environment back to its caller.
C9_BootFailureIsFatal == boot = "error" => ~handed

\* The names janet_core_env binds before it roots the environment: the
\* native primitives and every assembled function.
RegisteredNames ==
    { CfunNames[i] : i \in 1..Len(CfunNames) }
    \cup { FixedAsmNames[i] : i \in 1..Len(FixedAsmNames) }
    \cup {"apply"} \cup VarOpNames \cup ComparatorNames

Bound == { env[i] : i \in 1..Len(env) }

\* C11: janet_core_env performs its steps in order, each complete before the
\* next begins: the environment is allocated; the native primitives and every
\* assembled function are registered; the environment is rooted; the
\* auxiliary modules run; the environment is bound under _env; the bootstrap
\* program runs last.  The environment is rooted before any auxiliary module
\* or the bootstrap program runs.
C11_StartupOrder ==
    /\ (env # << >> \/ rooted) => epc # 1
    /\ rooted => RegisteredNames \subseteq Bound
    /\ auxrun # << >> => rooted
    /\ "_env" \in Bound => rooted /\ auxrun = AuxLibs(assembler)
    /\ boot # "none" => rooted /\ auxrun = AuxLibs(assembler) /\ "_env" \in Bound
    /\ handed => boot # "none"
    /\ \A i \in 1..Len(auxrun) : auxrun[i] = AuxLibs(assembler)[i]

\* The bootstrap program has run in a build with the assembler module, after
\* all thirteen auxiliary modules.
C11_Witness ==
    /\ assembler /\ boot # "none" /\ rooted
    /\ Len(auxrun) = Len(AuxLibs(TRUE)) /\ "_env" \in Bound

\* ------------------------------------------------------- specifications

\* No assembled function is being called.
VMIdle ==
    /\ fn = [kind |-> "none"]
    /\ args = << >>
    /\ stack = << >>
    /\ pc = 0
    /\ pushed = << >>
    /\ status = "idle"
    /\ ret = NilV
    /\ evals = << >>

NativeParked ==
    /\ build = "posix"
    /\ libs = [p \in Paths |-> "ok"]
    /\ dlerr = "cannot open shared object file"
    /\ NativeIdle

EnvParked == assembler = FALSE /\ EnvIdle

EncodeParked ==
    /\ eform = "none"
    /\ eops = << >>
    /\ ephase = "idle"
    /\ eword = ToU32(0)
    /\ efields = NoFields

NextGC ==
    \/ CoreGcSetInterval
    \/ CoreGcInterval

NextNative == CoreNative

NextEnv ==
    \/ EnvAlloc
    \/ EnvCfuns
    \/ EnvQuickAsm
    \/ EnvOutOfMemory
    \/ EnvDef
    \/ EnvGcRoot
    \/ EnvAuxLib
    \/ EnvDoBytes
    \/ EnvReturn

InitSpecVM == InitVM /\ InitDict /\ InitGC /\ NativeParked /\ EnvParked /\ EncodeParked
InitSpecDict == VMIdle /\ InitDict /\ InitGC /\ NativeParked /\ EnvParked /\ EncodeParked
InitSpecGC == VMIdle /\ InitDict /\ InitGC /\ NativeParked /\ EnvParked /\ EncodeParked
InitSpecNative == VMIdle /\ InitDict /\ InitGC /\ InitNative /\ EnvParked /\ EncodeParked
InitSpecEnv == VMIdle /\ InitDict /\ InitGC /\ NativeParked /\ InitEnv /\ EncodeParked

InitSpecEncode ==
    VMIdle /\ InitDict /\ InitGC /\ NativeParked /\ EnvParked /\ InitEncode

\* Calls of the assembled functions.
SpecVM == InitSpecVM /\ [][NextVM]_vars

\* table or struct, then a walk with next.
SpecDict == InitSpecDict /\ [][NextDict]_vars

\* Sequences of gcsetinterval and gcinterval calls.
SpecGC == InitSpecGC /\ [][NextGC]_vars

\* One call of native.
SpecNative == InitSpecNative /\ [][NextNative]_vars

\* The construction of the root environment.
SpecEnv == InitSpecEnv /\ [][NextEnv]_vars

\* Each encoding macro applied to operands in range, then read back.
SpecEncode == InitSpecEncode /\ [][NextEncode]_vars

====
